---- MODULE Spec2Model ----
(***************************************************************************)
(* spherical_semivariogram (src/jupyter/lib/semivariograms.py): the        *)
(* semivariance of 2-D lag vectors under an elliptically anisotropic       *)
(* spherical model.                                                        *)
(*                                                                         *)
(* Numbers are exact reals.  The rotation, the scaling and the squared     *)
(* length are rational (pairs <<n, d>> in lowest terms, d > 0); the        *)
(* Euclidean length is a square root, so the last step computes in         *)
(* Q(sqrt m): records [a, b, m] standing for a + b*sqrt(m), m squarefree.  *)
(* Rounding of IEEE doubles is not modelled.                               *)
(*                                                                         *)
(* Azimuths are degrees.  sin and cos are tabulated at the twelve angles   *)
(* where both are rational with denominator 5: the multiples of 90 and the *)
(* angles of the 3-4-5 triangle, written by their nearest degree (37       *)
(* stands for atan(3/4) = 36.87, 53 for atan(4/3) = 53.13, and so on       *)
(* around the circle).                                                     *)
(***************************************************************************)
EXTENDS Integers, Sequences, FiniteSets, TLC

\* Largest lag magnitude and largest range drawn, in units of 50.
MaxMag == 3
MaxRange == 3

(***************************************************************************)
(* Rational arithmetic: Python's and numpy's float operators, exact.       *)
(***************************************************************************)
Abs(n) == IF n < 0 THEN -n ELSE n

RECURSIVE Gcd(_, _)
Gcd(a, b) == IF b = 0 THEN a ELSE Gcd(b, a % b)

\* n/d in lowest terms with a positive denominator (d # 0).
Rat(n, d) ==
  LET s == IF d < 0 THEN -1 ELSE 1
      g == Gcd(Abs(n), Abs(d))
  IN  <<(s * n) \div g, (s * d) \div g>>

Zero == <<0, 1>>
Num(n) == <<n, 1>>

\* Sums over the least common denominator, which keeps the integers small.
RAdd(p, q) ==
  LET g == Gcd(p[2], q[2])
  IN  Rat(p[1] * (q[2] \div g) + q[1] * (p[2] \div g), (p[2] \div g) * q[2])
RSub(p, q) == RAdd(p, <<-q[1], q[2]>>)
RMul(p, q) == Rat(p[1] * q[1], p[2] * q[2])
RDiv(p, q) == Rat(p[1] * q[2], p[2] * q[1])
RSign(p) == IF p[1] > 0 THEN 1 ELSE IF p[1] < 0 THEN -1 ELSE 0

(***************************************************************************)
(* Arithmetic in Q(sqrt m).  Canonical form: m squarefree, and m = 1       *)
(* exactly when b = 0, so that equal reals are equal records.  Both        *)
(* operands of a binary operator lie in the same field or one is rational. *)
(***************************************************************************)
Real(a, b, m) ==
  IF m = 1 THEN [a |-> RAdd(a, b), b |-> Zero, m |-> 1]
  ELSE IF b[1] = 0 THEN [a |-> a, b |-> Zero, m |-> 1]
  ELSE [a |-> a, b |-> b, m |-> m]

FromRat(q) == [a |-> q, b |-> Zero, m |-> 1]
FieldOf(u, v) == IF u.m = 1 THEN v.m ELSE u.m

Add(u, v) == Real(RAdd(u.a, v.a), RAdd(u.b, v.b), FieldOf(u, v))
Sub(u, v) == Real(RSub(u.a, v.a), RSub(u.b, v.b), FieldOf(u, v))
Mul(u, v) ==
  LET m == FieldOf(u, v)
  IN  Real(RAdd(RMul(u.a, v.a), RMul(RMul(u.b, v.b), Num(m))),
           RAdd(RMul(u.a, v.b), RMul(u.b, v.a)), m)
\* Division by a nonzero rational.
DivRat(u, q) == Real(RDiv(u.a, q), RDiv(u.b, q), u.m)
Pow3(u) == Mul(u, Mul(u, u))

(***************************************************************************)
(* Naturals of any size, as sequences of base-10000 digits, least          *)
(* significant first: the squares compared by Sign exceed 32 bits.         *)
(***************************************************************************)
Digits(n) == <<n % 10000, (n \div 10000) % 10000, n \div 100000000>>
DigitAt(A, i) == IF i <= Len(A) THEN A[i] ELSE 0

RECURSIVE Carry(_, _, _)
Carry(S, i, c) ==
  IF i > Len(S)
  THEN IF c = 0 THEN <<>> ELSE <<c % 10000>> \o Carry(S, i, c \div 10000)
  ELSE <<(S[i] + c) % 10000>> \o Carry(S, i + 1, (S[i] + c) \div 10000)

RECURSIVE ConvSum(_, _, _, _)
\* The sum of A[i] * C[k + 1 - i] over i from 'from' on.
ConvSum(A, C, k, from) ==
  IF from > Len(A) \/ from > k THEN 0
  ELSE A[from] * DigitAt(C, k + 1 - from) + ConvSum(A, C, k, from + 1)

BigMul(A, C) ==
  Carry([k \in 1..(Len(A) + Len(C) - 1) |-> ConvSum(A, C, k, 1)], 1, 0)

RECURSIVE BigLtFrom(_, _, _)
\* A < C, comparing the digits from position i down.
BigLtFrom(A, C, i) ==
  IF i = 0 THEN FALSE
  ELSE IF DigitAt(A, i) # DigitAt(C, i) THEN DigitAt(A, i) < DigitAt(C, i)
  ELSE BigLtFrom(A, C, i - 1)
BigLt(A, C) == BigLtFrom(A, C, IF Len(A) > Len(C) THEN Len(A) ELSE Len(C))

BigSquare(n) == BigMul(Digits(n), Digits(n))

\* b*b*m < a*a for rationals a, b and a natural m.
SquareLt(b, m, a) ==
  BigLt(BigMul(BigMul(BigSquare(Abs(b[1])), BigSquare(a[2])), Digits(m)),
        BigMul(BigSquare(Abs(a[1])), BigSquare(b[2])))

\* The sign of a + b*sqrt(m).
Sign(u) ==
  LET sa == RSign(u.a)
      sb == RSign(u.b)
  IN  IF sb = 0 THEN sa
      ELSE IF sa = 0 \/ sa = sb THEN sb
      ELSE IF SquareLt(u.b, u.m, u.a) THEN sa
      ELSE sb
Lt(u, v) == Sign(Sub(u, v)) < 0
Le(u, v) == Sign(Sub(u, v)) <= 0

\* The largest k with k*k dividing n, by trial division from k upwards.
RECURSIVE SqPart(_, _)
SqPart(n, k) ==
  IF k * k > n THEN 1
  ELSE IF n % (k * k) = 0 THEN k * SqPart(n \div (k * k), k)
  ELSE SqPart(n, k + 1)

\* The square root of a rational q >= 0.
Sqrt(q) ==
  IF q[1] = 0 THEN FromRat(Zero)
  ELSE LET kn == SqPart(q[1], 2)
           kd == SqPart(q[2], 2)
           mn == q[1] \div (kn * kn)
           md == q[2] \div (kd * kd)
       IN  Real(Zero, Rat(kn, kd * md), mn * md)

(***************************************************************************)
(* cos and sin, times 5, at t degrees.                                     *)
(***************************************************************************)
Cos5(t) ==
  LET d == t % 360
  IN  CASE d = 0 -> 5    [] d = 37 -> 4   [] d = 53 -> 3   [] d = 90 -> 0
        [] d = 127 -> -3 [] d = 143 -> -4 [] d = 180 -> -5 [] d = 217 -> -4
        [] d = 233 -> -3 [] d = 270 -> 0  [] d = 307 -> 3  [] d = 323 -> 4
Sin5(t) ==
  LET d == t % 360
  IN  CASE d = 0 -> 0    [] d = 37 -> 3   [] d = 53 -> 4   [] d = 90 -> 5
        [] d = 127 -> 4  [] d = 143 -> 3  [] d = 180 -> 0  [] d = 217 -> -3
        [] d = 233 -> -4 [] d = 270 -> -5 [] d = 307 -> -4 [] d = 323 -> -3
cos(t) == Rat(Cos5(t), 5)
sin(t) == Rat(Sin5(t), 5)

(***************************************************************************)
(* The steps of spherical_semivariogram, as operators on arrays of lag     *)
(* vectors (sequences of rows).                                            *)
(***************************************************************************)
\* h = np.asarray(x): the integer coordinates become floats.
asarray(xx) == [i \in DOMAIN xx |-> [j \in DOMAIN xx[i] |-> Num(xx[i][j])]]

\* The quarter turn left out: the azimuth read from the x axis.
Theta_NoQuarterTurn(a) == a

\* t = az/180 * pi + pi/2, kept in degrees.
Theta(a) == a + 90

\* The minus sign of the second row dropped: no longer a rotation.
Q_NotRotation(t) == << <<cos(t), sin(t)>>,
                       <<sin(t), cos(t)>> >>

Q(t) == << <<cos(t), sin(t)>>,
           <<RSub(Zero, sin(t)), cos(t)>> >>

\* Rows longer than the matrix accepted.
ShapeOk_AtLeast2(hh) == \A i \in DOMAIN hh : Len(hh[i]) >= 2

\* np.matmul accepts h (..., k) times a 2 x 2 matrix only when k = 2.
ShapeOk(hh) == \A i \in DOMAIN hh : Len(hh[i]) = 2

RowMatmul(v, M) ==
  << RAdd(RMul(v[1], M[1][1]), RMul(v[2], M[2][1])),
     RAdd(RMul(v[1], M[1][2]), RMul(v[2], M[2][2])) >>
matmul(hh, M) == [i \in DOMAIN hh |-> RowMatmul(hh[i], M)]

\* Floor division (rng[0] // rng[1], or / on Python 2 integers).
Ratio_Floor(rg) == Num(rg[1] \div rg[2])

\* r = rng[0] / rng[1] on Python numbers (rng[1] # 0).
Ratio(rg) == Rat(rg[1], rg[2])

\* The major-axis coordinate scaled instead of the minor-axis one.
D_ScaleFirst(r) == << <<r, Zero>>,
                      <<Zero, Num(1)>> >>

D(r) == << <<Num(1), Zero>>,
           <<Zero, r>> >>

\* (h ** 2).sum(axis=-1) ** 0.5
SquaredLength(v) == RAdd(RMul(v[1], v[1]), RMul(v[2], v[2]))
norm(hh) == [i \in DOMAIN hh |-> Sqrt(SquaredLength(hh[i]))]

\* The nugget not added.
Spherical_NoNugget(d, rg, sl, ng) ==
  Mul(FromRat(Num(sl - ng)),
      Sub(DivRat(DivRat(Mul(FromRat(Num(3)), d), Num(2)), Num(rg[1])),
          Mul(FromRat(<<1, 2>>), Pow3(DivRat(d, Num(rg[1]))))))

\* sill and nugget exchanged in the factor.
Spherical_SwappedSillNugget(d, rg, sl, ng) ==
  Add(Mul(FromRat(Num(ng - sl)),
          Sub(DivRat(DivRat(Mul(FromRat(Num(3)), d), Num(2)), Num(rg[1])),
              Mul(FromRat(<<1, 2>>), Pow3(DivRat(d, Num(rg[1])))))),
      FromRat(Num(ng)))

\* The linear term 3 * h / rng[0] instead of 3 * h / 2 / rng[0].
Spherical_NoHalf(d, rg, sl, ng) ==
  Add(Mul(FromRat(Num(sl - ng)),
          Sub(DivRat(Mul(FromRat(Num(3)), d), Num(rg[1])),
              Mul(FromRat(<<1, 2>>), Pow3(DivRat(d, Num(rg[1])))))),
      FromRat(Num(ng)))

\* (sill - nugget) * (3 * h / 2 / rng[0] - 0.5 * np.power(h / rng[0], 3)) + nugget
Spherical(d, rg, sl, ng) ==
  Add(Mul(FromRat(Num(sl - ng)),
          Sub(DivRat(DivRat(Mul(FromRat(Num(3)), d), Num(2)), Num(rg[1])),
              Mul(FromRat(<<1, 2>>), Pow3(DivRat(d, Num(rg[1])))))),
      FromRat(Num(ng)))

\* The spherical formula beyond the range too (rng[0] # 0).
where_NoClamp(hh, rg, sl, ng) ==
  [i \in DOMAIN hh |->
     IF rg[1] # 0 THEN Spherical(hh[i], rg, sl, ng) ELSE FromRat(Num(sl))]

\* np.where(h < rng[0], ..., sill).  numpy evaluates the first branch on the
\* whole array and divides by rng[0] = 0 without raising (inf or nan, with a
\* warning); h >= 0, so where h < rng[0] holds rng[0] > 0 and the value is finite.
where(hh, rg, sl, ng) ==
  [i \in DOMAIN hh |->
     IF Lt(hh[i], FromRat(Num(rg[1])))
     THEN Spherical(hh[i], rg, sl, ng)
     ELSE FromRat(Num(sl))]

\* The whole call: the array returned, or the exception raised.
spherical_semivariogram(xx, a, rg, sl, ng) ==
  IF ~ShapeOk(asarray(xx)) THEN [raised |-> "ValueError"]
  ELSE IF rg[2] = 0 THEN [raised |-> "ZeroDivisionError"]
  ELSE [raised |-> "none",
        value |-> where(norm(matmul(matmul(asarray(xx), Q(Theta(a))),
                                    D(Ratio(rg)))), rg, sl, ng)]

(***************************************************************************)
(* The inputs.                                                             *)
(***************************************************************************)
\* The twelve directions, as vectors of length 50.
Circle ==
  { <<50, 0>>, <<40, 30>>, <<30, 40>>, <<0, 50>>, <<-30, 40>>, <<-40, 30>>,
    <<-50, 0>>, <<-40, -30>>, <<-30, -40>>, <<0, -50>>, <<30, -40>>, <<40, -30>> }

Times(k, u) == <<k * u[1], k * u[2]>>

\* Lag vectors of length 50 * k in each direction.
LagSet == { Times(k, u) : k \in 0..MaxMag, u \in Circle }

\* A profile: the lags of increasing length along one direction.
Profile(u) == [k \in 1..(MaxMag + 1) |-> Times(k - 1, u)]

\* Rows that are not 2-D lag vectors.
BadRows == [1..1 -> {0, 50}] \cup [1..3 -> {0, 50}]

XSet == { <<v>> : v \in LagSet } \cup { Profile(u) : u \in Circle }
          \cup { <<v>> : v \in BadRows }

AzSet == {0, 37, 53, 90, 127, 143, 180, 270}
RangeSet == { 50 * k : k \in 0..MaxRange }
SillSet == {2, 10}
NuggetSet == {0, 2, 10}

None == <<>>

VARIABLES x, az, rng, sill, nugget, h, pc, ret, err
vars == <<x, az, rng, sill, nugget, h, pc, ret, err>>
args == <<x, az, rng, sill, nugget>>

Init ==
  /\ x \in XSet
  /\ az \in AzSet
  /\ rng \in RangeSet \X RangeSet
  /\ sill \in SillSet
  /\ nugget \in NuggetSet
  /\ h = None
  /\ pc = "asarray"
  /\ ret = None
  /\ err = "none"

AsArray ==
  /\ pc = "asarray"
  /\ h' = asarray(x)
  /\ pc' = "rotate"
  /\ UNCHANGED <<args, ret, err>>

Rotate ==
  /\ pc = "rotate"
  /\ ShapeOk(h)
  /\ h' = matmul(h, Q(Theta(az)))
  /\ pc' = "scale"
  /\ UNCHANGED <<args, ret, err>>

RotateShapeError ==
  /\ pc = "rotate"
  /\ ~ShapeOk(h)
  /\ err' = "ValueError"
  /\ pc' = "raised"
  /\ UNCHANGED <<args, h, ret>>

\* The division carried out by numpy instead of Python: no exception.
Scale_NoRaise ==
  /\ pc = "scale"
  /\ h' = IF rng[2] # 0 THEN matmul(h, D(Ratio(rng))) ELSE h
  /\ pc' = "norm"
  /\ UNCHANGED <<args, ret, err>>

Scale ==
  /\ pc = "scale"
  /\ rng[2] # 0
  /\ h' = matmul(h, D(Ratio(rng)))
  /\ pc' = "norm"
  /\ UNCHANGED <<args, ret, err>>

ScaleZeroDivision ==
  /\ pc = "scale"
  /\ rng[2] = 0
  /\ err' = "ZeroDivisionError"
  /\ pc' = "raised"
  /\ UNCHANGED <<args, h, ret>>

Norm ==
  /\ pc = "norm"
  /\ h' = norm(h)
  /\ pc' = "where"
  /\ UNCHANGED <<args, ret, err>>

Where ==
  /\ pc = "where"
  /\ ret' = where(h, rng, sill, nugget)
  /\ pc' = "returned"
  /\ UNCHANGED <<args, h, err>>

Next ==
  \/ AsArray
  \/ Rotate
  \/ RotateShapeError
  \/ Scale
  \/ ScaleZeroDivision
  \/ Norm
  \/ Where

Spec == Init /\ [][Next]_vars

(***************************************************************************)
(* Vocabulary of the properties.                                           *)
(***************************************************************************)
Val(n) == FromRat(Num(n))
Returned == pc = "returned"
PositiveRanges == rng[1] > 0 /\ rng[2] > 0
Len2(v) == v[1] * v[1] + v[2] * v[2]

\* v is parallel to the azimuth direction (sin az, cos az), clockwise from north.
AlongMajor(v, a) == v[1] * Cos5(a) - v[2] * Sin5(a) = 0
\* v is perpendicular to the azimuth direction.
AlongMinor(v, a) == v[1] * Sin5(a) + v[2] * Cos5(a) = 0

\* C1: with strictly positive ranges, whatever the azimuth, sill and nugget,
\* the zero lag vector [0, 0] yields exactly nugget.
C1_ZeroLagIsNugget ==
  (Returned /\ PositiveRanges) =>
    \A i \in DOMAIN x : x[i] = <<0, 0>> => ret[i] = Val(nugget)

C1_Witness ==
  /\ Returned /\ PositiveRanges
  /\ x = << <<0, 0>> >> /\ az = 37 /\ rng = <<150, 100>>
  /\ sill = 2 /\ nugget = 10
  /\ ret = << Val(10) >>

\* C2 as stated: azimuth 0, range (100, 50), sill 10, nugget 2 give 2 at lag
\* [0, 0], 10 at lag [100, 0] and 10 at lag [0, 50].
Scenario == az = 0 /\ rng = <<100, 50>> /\ sill = 10 /\ nugget = 2

C2_Original ==
  (Returned /\ Scenario) =>
    \A i \in DOMAIN x :
      /\ x[i] = <<0, 0>> => ret[i] = Val(2)
      /\ x[i] = <<100, 0>> => ret[i] = Val(10)
      /\ x[i] = <<0, 50>> => ret[i] = Val(10)

\* C2 amended: azimuth 0, range (100, 50), sill 10, nugget 2 give 2 at lag
\* [0, 0], 10 at lag [100, 0], and 7.5 at lag [0, 50], which lies along the
\* semi-major axis (north) at half the major range; the sill is reached at
\* [50, 0] on the minor axis and at [0, 100] on the major axis.
C2_Scenario ==
  (Returned /\ Scenario) =>
    \A i \in DOMAIN x :
      /\ x[i] = <<0, 0>> => ret[i] = Val(2)
      /\ x[i] = <<100, 0>> => ret[i] = Val(10)
      /\ x[i] = <<0, 50>> => ret[i] = FromRat(<<15, 2>>)
      /\ x[i] = <<50, 0>> => ret[i] = Val(10)
      /\ x[i] = <<0, 100>> => ret[i] = Val(10)

C2_Witness ==
  /\ Returned /\ Scenario
  /\ x = Profile(<<0, 50>>)
  /\ ret[1] = Val(2) /\ ret[2] = FromRat(<<15, 2>>) /\ ret[3] = Val(10)

\* C3: with strictly positive ranges, a lag vector along the azimuth direction
\* (sin az, cos az), clockwise from north (north at azimuth 0, east at
\* azimuth 90), of Euclidean length at least range_major yields exactly sill,
\* at length exactly range_major too.
C3_SillAlongMajorAxis ==
  (Returned /\ PositiveRanges) =>
    \A i \in DOMAIN x :
      /\ (AlongMajor(x[i], az) /\ Len2(x[i]) >= rng[1] * rng[1])
            => ret[i] = Val(sill)
      /\ (az = 0 /\ x[i][1] = 0 /\ Abs(x[i][2]) >= rng[1]) => ret[i] = Val(sill)
      /\ (az = 90 /\ x[i][2] = 0 /\ Abs(x[i][1]) >= rng[1]) => ret[i] = Val(sill)

\* Length exactly range_major, off the coordinate axes, minor range larger
\* than the lag and sill different from nugget.
C3_Witness ==
  /\ Returned
  /\ az = 37 /\ rng = <<100, 150>> /\ sill = 10 /\ nugget = 2
  /\ x = << <<60, 80>> >>
  /\ h = << Val(100) >>
  /\ ret = << Val(10) >>

\* C4 as stated: with range_minor < range_major, a lag vector along the
\* semi-minor axis of Euclidean length range_major yields less than sill.
C4_Original ==
  (Returned /\ PositiveRanges /\ rng[2] < rng[1]) =>
    \A i \in DOMAIN x :
      (AlongMinor(x[i], az) /\ Len2(x[i]) = rng[1] * rng[1])
         => Lt(ret[i], Val(sill))

\* C4 amended: with range_minor < range_major, a lag vector along the
\* semi-minor axis of Euclidean length range_major yields exactly sill: its
\* effective distance range_major * range_major / range_minor lies beyond
\* range_major.
C4_MinorAxisAtMajorRange ==
  (Returned /\ PositiveRanges /\ rng[2] < rng[1]) =>
    \A i \in DOMAIN x :
      (AlongMinor(x[i], az) /\ Len2(x[i]) = rng[1] * rng[1])
         => /\ ret[i] = Val(sill)
            /\ h[i] = FromRat(Rat(rng[1] * rng[1], rng[2]))

C4_Witness ==
  /\ Returned
  /\ az = 53 /\ rng = <<100, 50>> /\ sill = 10 /\ nugget = 2
  /\ x = << <<60, -80>> >>
  /\ h = << Val(200) >>
  /\ ret = << Val(10) >>

\* C5: with strictly positive ranges, a lag vector along the semi-minor axis
\* of Euclidean length exactly range_minor yields exactly sill; the scaling
\* multiplies the second rotated coordinate by range_major / range_minor and
\* leaves the first unchanged, so its effective distance is range_major.
C5_SillAtMinorRange ==
  /\ (pc \in {"where", "returned"} /\ PositiveRanges) =>
       \A i \in DOMAIN x :
         (AlongMinor(x[i], az) /\ Len2(x[i]) = rng[2] * rng[2])
            => /\ h[i] = Val(rng[1])
               /\ Returned => ret[i] = Val(sill)
  /\ (pc = "norm" /\ PositiveRanges) =>
       \A i \in DOMAIN x :
         LET rot == RowMatmul(asarray(x)[i], Q(Theta(az)))
         IN  /\ h[i][1] = rot[1]
             /\ h[i][2] = RMul(rot[2], Rat(rng[1], rng[2]))

C5_Witness ==
  /\ Returned
  /\ az = 53 /\ rng = <<150, 100>> /\ sill = 10 /\ nugget = 2
  /\ x = << <<60, -80>> >>
  /\ h = << Val(150) >>
  /\ ret = << Val(10) >>

\* v and w point the same way and w is the longer (v may be the zero vector).
SameDirectionLonger(v, w) ==
  /\ v[1] * w[2] - v[2] * w[1] = 0
  /\ v[1] * w[1] + v[2] * w[2] >= 0
  /\ Len2(v) < Len2(w)

\* C6: with positive ranges and sill >= nugget, of two lag vectors along one
\* direction with lengths 0 <= h1 < h2 < range_major the longer one has the
\* semivariance that is larger or equal.
C6_Monotone ==
  (Returned /\ PositiveRanges /\ sill >= nugget) =>
    \A i, j \in DOMAIN x :
      (SameDirectionLonger(x[i], x[j]) /\ Len2(x[j]) < rng[1] * rng[1])
         => Le(ret[i], ret[j])

\* Three lags below the range, irrational effective distances, strictly
\* increasing semivariances.
C6_Witness ==
  /\ Returned
  /\ az = 37 /\ rng = <<150, 100>> /\ sill = 10 /\ nugget = 2
  /\ x = Profile(<<50, 0>>)
  /\ ret[2].m # 1
  /\ Lt(ret[1], ret[2]) /\ Lt(ret[2], ret[3])

\* The call on the single lag vector of the length of v that points along
\* the x axis, at azimuth 0.
AlongX(v) == << <<50 * (CHOOSE k \in 0..MaxMag : 2500 * k * k = Len2(v)), 0>> >>
Reference(v) == spherical_semivariogram(AlongX(v), 0, rng, sill, nugget).value[1]

\* C7: when range_major = range_minor the semivariance of a lag vector depends
\* on its Euclidean length only: whatever the azimuth and the direction of the
\* lag, it is the value of the lag of that length along the x axis at azimuth 0.
C7_Isotropy ==
  (Returned /\ PositiveRanges /\ rng[1] = rng[2]) =>
    \A i \in DOMAIN x : ret[i] = Reference(x[i])

\* A lag off the axes, below the range, sill different from nugget.
C7_Witness ==
  /\ Returned
  /\ az = 37 /\ rng = <<100, 100>> /\ sill = 10 /\ nugget = 2
  /\ x = << <<30, 40>> >>
  /\ ret = << FromRat(<<15, 2>>) >>
  /\ spherical_semivariogram(<< <<-50, 0>> >>, 90, rng, sill, nugget).value = ret

\* C8 as stated: a zero range_major, like a zero range_minor, makes the call
\* fail with a division error, so no call with a zero range returns.
C8_Original ==
  /\ Returned => (rng[1] # 0 /\ rng[2] # 0)
  /\ (pc = "raised" /\ err = "ZeroDivisionError") => ret = None

\* C8 amended: with the ranges given as Python numbers, a zero range_minor
\* makes the call fail at the scaling step with a division error and no array
\* is returned; a zero range_major with a nonzero range_minor raises nothing,
\* and the call returns sill for every lag vector.
C8_ZeroRange ==
  /\ rng[2] = 0 => pc \in {"asarray", "rotate", "scale", "raised"}
  /\ (pc = "raised" /\ \A i \in DOMAIN x : Len(x[i]) = 2)
        => (rng[2] = 0 /\ err = "ZeroDivisionError" /\ ret = None)
  /\ (Returned /\ rng[1] = 0) =>
        (Len(ret) = Len(x) /\ \A i \in DOMAIN x : ret[i] = Val(sill))

C8_Witness ==
  /\ Returned
  /\ rng = <<0, 50>> /\ az = 37 /\ sill = 10 /\ nugget = 2
  /\ x = Profile(<<30, 40>>)
  /\ ret = [i \in 1..Len(x) |-> Val(10)]

C8_WitnessRaise ==
  /\ pc = "raised" /\ err = "ZeroDivisionError"
  /\ rng = <<50, 0>> /\ x = << <<30, 40>> >>

\* C9: lag vectors without exactly 2 coordinates make the call fail with a
\* shape error at the rotation step, before any division, with no output;
\* otherwise the call returns one semivariance per lag vector; no partial
\* result is ever produced.
C9_ShapeErrorOrFullResult ==
  /\ (\E i \in DOMAIN x : Len(x[i]) # 2) =>
        /\ pc \in {"asarray", "rotate", "raised"}
        /\ pc = "raised" => err = "ValueError"
  /\ Returned =>
        /\ err = "none"
        /\ DOMAIN ret = DOMAIN x
        /\ \A i \in DOMAIN x : Len(x[i]) = 2
  /\ ~Returned => ret = None

\* The shape error wins over the zero minor range.
C9_Witness ==
  /\ pc = "raised" /\ err = "ValueError" /\ ret = None
  /\ x = << <<50, 0, 50>> >>
  /\ rng = <<50, 0>>

\* C10: with strictly positive ranges and sill >= nugget >= 0 every value
\* returned lies between nugget and sill, and it is sill wherever the rotated
\* and rescaled distance is at least range_major.
C10_Bounded ==
  (Returned /\ PositiveRanges /\ sill >= nugget /\ nugget >= 0) =>
    \A i \in DOMAIN x :
      /\ Le(Val(nugget), ret[i])
      /\ Le(ret[i], Val(sill))
      /\ ~Lt(h[i], Val(rng[1])) => ret[i] = Val(sill)

\* An irrational value strictly between nugget and sill.
C10_Witness ==
  /\ Returned
  /\ az = 0 /\ rng = <<150, 100>> /\ sill = 10 /\ nugget = 2
  /\ x = << <<30, 40>> >>
  /\ ret[1].m # 1
  /\ Lt(Val(2), ret[1]) /\ Lt(ret[1], Val(10))

====
